---- MODULE Spec2Model ----
(***************************************************************************)
(* Model of the project-lifecycle and worktree core of automaker:          *)
(*   - validateProjectPath           (apps/ui/src/lib/validate-project-path)*)
(*   - useValidatedProjectCycling    (history cycling hook)                 *)
(*   - createCreateHandler           (POST /create worktree route)          *)
(* Code between two awaits runs to completion in JavaScript, so every      *)
(* action below is one such run: from a call (or the resumption of an      *)
(* await) up to the next await or the return.                              *)
(***************************************************************************)
EXTENDS Integers, Sequences, FiniteSets, TLC

VARIABLES
    \* ---- validateProjectPath calls in flight
    vcall,
    \* ---- app store (useAppStore) and the cycling hook
    projects, projectHistory, projectHistoryIndex, currentProject, currentView,
    isValidating, rendered, inv, lastReturn, route, validationDialogOpen,
    \* ---- POST /create: requests in flight, the repository on disk, the ledger
    call, pathSep, containerExists, worktrees, branches, tracked, removals,
    \* ---- the trash (useTrashOperations) and the path-repair flow
    trashedProjects, activeTrashId, isEmptyingTrash, invalidProject,
    restoreOp, deleteOp, repairOp, toast, gone, clicks

validateVars == <<vcall>>
storeVars == <<projects, projectHistory, projectHistoryIndex, currentProject, currentView>>
hookVars == <<isValidating, rendered, inv, lastReturn, route, validationDialogOpen>>
cycleVars == <<storeVars, hookVars>>
repoVars == <<containerExists, worktrees, branches, tracked>>
createVars == <<call, pathSep, repoVars, removals>>
trashVars == <<trashedProjects, activeTrashId, isEmptyingTrash, restoreOp, deleteOp, gone>>
repairVars == <<invalidProject, repairOp>>
registryVars == <<trashVars, repairVars, toast, clicks>>
\* What the trash and the path-repair flow never write.
cyclerVars == <<projectHistory, projectHistoryIndex, currentView, isValidating, rendered, inv,
                lastReturn>>
vars == <<validateVars, cycleVars, createVars, registryVars>>

(***************************************************************************)
(* Projects and paths                                                      *)
(***************************************************************************)
IdNames == <<"A", "B", "C">>

ProjectIds == {IdNames[k] : k \in 1..Len(IdNames)}

PathOf(id) == "/p" \o id

Paths == {PathOf(id) : id \in ProjectIds}

\* The absent project: null / undefined in the source.
NoProject == [id |-> "none", name |-> "", path |-> "", lastOpened |-> 0]

Project(id) == [id |-> id, name |-> id, path |-> PathOf(id), lastOpened |-> 0]

AllProjects == [k \in 1..Len(IdNames) |-> Project(IdNames[k])]

(***************************************************************************)
(* validateProjectPath                                                     *)
(***************************************************************************)
\* api.exists resolves to a value or rejects ("throw").
ExistsOutcomes == {"true", "false", "undefined", "truthy", "throw"}

\* api.stat resolves to {success, stats?: {isDirectory}} or to undefined, or
\* rejects ("throw").
StatOutcomes == {"ok_dir", "ok_file", "ok_nostats", "fail", "undefined", "throw"}

StatThrows(st) == st \in {"throw", "undefined"}

StatSuccess(st) == st \in {"ok_dir", "ok_file", "ok_nostats"}

StatIsDirectory(st) == st = "ok_dir"

\* The catch block: every exception becomes the result false.
OnExceptionRethrow == "raised"

OnException == "false"

\* if (!project?.path) return false
HasPath(project) == project # NoProject /\ project.path # ""

\* The code after `await api.exists(path)`: "continue" goes on to api.stat.
AfterExists(ex) ==
    IF ex = "throw" THEN OnException
    ELSE IF ex # "true" THEN "false"
    ELSE "continue"

\* The code after `await api.stat(path)`.
AfterStat(st) ==
    IF StatThrows(st) THEN OnException
    ELSE IF ~StatSuccess(st) \/ ~StatIsDirectory(st) THEN "false"
    ELSE "true"

\* The whole function, given what the two API calls answer.
validateProjectPath(project, ex, st) ==
    IF ~HasPath(project) THEN "false"
    ELSE IF AfterExists(ex) # "continue" THEN AfterExists(ex)
    ELSE AfterStat(st)

\* Everything a call can return for a project: the disk belongs to other
\* programs too, so the API may answer anything at the time of the call.
ValidateAnswers(project) ==
    {validateProjectPath(project, ex, st) : ex \in ExistsOutcomes, st \in StatOutcomes}

\* ---- validateProjectPath as a process: two independent calls in flight.
VSlots == {"v1", "v2"}

VInputs == {NoProject, [Project("A") EXCEPT !.path = ""]} \cup {Project(id) : id \in ProjectIds}

VIdle == [pc |-> "idle", project |-> NoProject, ex |-> "none", st |-> "none", result |-> "none"]

\* Call: the synchronous part up to `await api.exists`.
ValidateCall(v, project) ==
    /\ vcall[v].pc \in {"idle", "done"}
    /\ vcall' = [vcall EXCEPT ![v] =
           IF HasPath(project)
           THEN [pc |-> "exists", project |-> project, ex |-> "none", st |-> "none",
                 result |-> "none"]
           ELSE [pc |-> "done", project |-> project, ex |-> "none", st |-> "none",
                 result |-> "false"]]
    /\ UNCHANGED <<cycleVars, createVars, registryVars>>

\* api.exists settles.
ValidateExists(v, ex) ==
    /\ vcall[v].pc = "exists"
    /\ vcall' = [vcall EXCEPT ![v] =
           IF AfterExists(ex) = "continue"
           THEN [@ EXCEPT !.pc = "stat", !.ex = ex]
           ELSE [@ EXCEPT !.pc = "done", !.ex = ex, !.result = AfterExists(ex)]]
    /\ UNCHANGED <<cycleVars, createVars, registryVars>>

\* api.stat settles.
ValidateStat(v, st) ==
    /\ vcall[v].pc = "stat"
    /\ vcall' = [vcall EXCEPT ![v] = [@ EXCEPT !.pc = "done", !.st = st, !.result = AfterStat(st)]]
    /\ UNCHANGED <<cycleVars, createVars, registryVars>>

(***************************************************************************)
(* Sequence helpers with JavaScript's meaning                              *)
(***************************************************************************)
\* Array.prototype.indexOf: the first 0-based position of x, or -1.
indexOf(seq, x) ==
    IF \E k \in 1..Len(seq) : seq[k] = x
    THEN (CHOOSE k \in 1..Len(seq) : seq[k] = x /\ \A j \in 1..(k - 1) : seq[j] # x) - 1
    ELSE -1

\* seq[i] with a 0-based index: undefined outside the array.
At(seq, i) == IF i \in 0..(Len(seq) - 1) THEN seq[i + 1] ELSE "undefined"

\* projects.find((p) => p.id === id): the first match, or undefined.
find(projs, id) ==
    IF \E k \in 1..Len(projs) : projs[k].id = id
    THEN projs[CHOOSE k \in 1..Len(projs) :
                   projs[k].id = id /\ \A j \in 1..(k - 1) : projs[j].id # id]
    ELSE NoProject

\* JavaScript's %: the result takes the sign of the dividend.
JsRem(a, n) == IF a >= 0 THEN a % n ELSE -((-a) % n)

(***************************************************************************)
(* useValidatedProjectCycling                                              *)
(***************************************************************************)
InvSlots == {1, 2}

Directions == {"prev", "next"}

\* projectHistory.filter((id) => projects.some((p) => p.id === id))
filterHistoryAll(history, projs) == history

filterHistory(history, projs) ==
    SelectSeq(history, LAMBDA id : \E k \in 1..Len(projs) : projs[k].id = id)

\* currentProjectId ? validHistory.indexOf(currentProjectId) : 0, and -1 becomes 0
startIndex(validHistory, current) ==
    IF current = NoProject THEN 0
    ELSE IF indexOf(validHistory, current.id) = -1 THEN 0
    ELSE indexOf(validHistory, current.id)

\* cyclePrevProject: (currentIndex + 1 + attempts) % validHistory.length
prevIndexNoWrap(currentIndex, attempts, n) == currentIndex + 1 + attempts

prevIndex(currentIndex, attempts, n) == JsRem(currentIndex + 1 + attempts, n)

\* cycleNextProject: (((currentIndex - 1 - attempts) % n) + n) % n
nextIndexNoWrap(currentIndex, attempts, n) == JsRem(currentIndex - 1 - attempts, n)

nextIndex(currentIndex, attempts, n) ==
    JsRem(JsRem(currentIndex - 1 - attempts, n) + n, n)

candidateIndex(dir, currentIndex, attempts, n) ==
    IF dir = "prev" THEN prevIndex(currentIndex, attempts, n)
    ELSE nextIndex(currentIndex, attempts, n)

\* if (targetProject && targetProject.id !== currentProject?.id)
isCandidateAny(targetProject, current) == targetProject # NoProject

isCandidate(targetProject, current) ==
    targetProject # NoProject /\ targetProject.id # current.id

\* An invocation that returned: its closure is gone; what it decided is
\* kept in lastReturn.
Returned(iv) == [iv EXCEPT !.pc = "done", !.projects = <<>>, !.target = NoProject]

\* The while loop, run from the invocation's attempts up to the next
\* `await validateProjectPath(targetProject)` or to its end.
RECURSIVE cycleLoop(_)
cycleLoop(iv) ==
    IF ~(iv.attempts < Len(iv.validHistory))
    THEN Returned([iv EXCEPT !.outcome = "exhausted", !.newIndex = -1])
    ELSE LET newIndex == candidateIndex(iv.dir, iv.currentIndex, iv.attempts,
                                        Len(iv.validHistory))
             targetProject == find(iv.projects, At(iv.validHistory, newIndex))
         IN IF isCandidate(targetProject, iv.currentProject)
            THEN [iv EXCEPT !.pc = "validating", !.newIndex = newIndex,
                            !.target = targetProject]
            ELSE cycleLoop([iv EXCEPT !.attempts = @ + 1])

\* No invocation is pending in the slot.
InvIdle ==
    [pc |-> "idle", dir |-> "prev", projects |-> <<>>, currentProject |-> NoProject,
     validHistory |-> <<>>, currentIndex |-> 0, attempts |-> 0, newIndex |-> -1,
     target |-> NoProject, results |-> <<>>, outcome |-> "none"]

\* if (isValidating || projectHistory.length <= 1) return;
cycleGuard(r) == r.isValidating \/ Len(r.projectHistory) <= 1

\* if (validHistory.length <= 1) return;
tooFewStrict(validHistory) == Len(validHistory) < 1

tooFew(validHistory) == Len(validHistory) <= 1

\* The body of the try block up to the first await, on the values the
\* callback closed over at the last render (r).
cycleBegin(dir, r) ==
    LET validHistory == filterHistory(r.projectHistory, r.projects)
        iv == [pc |-> "done", dir |-> dir, projects |-> r.projects,
               currentProject |-> r.currentProject, validHistory |-> validHistory,
               currentIndex |-> startIndex(validHistory, r.currentProject),
               attempts |-> 0, newIndex |-> -1, target |-> NoProject,
               results |-> <<>>, outcome |-> "noop"]
    IN IF tooFew(validHistory) THEN Returned(iv) ELSE cycleLoop(iv)

\* The values a render of the hook closes over.
Live ==
    [isValidating |-> isValidating, projects |-> projects,
     projectHistory |-> projectHistory, currentProject |-> currentProject]

\* A new invocation takes the first slot that holds no pending invocation.
FreeSlot(s) ==
    /\ inv[s].pc = "idle"
    /\ \A t \in InvSlots : (t # s /\ inv[t].pc = "idle") => ~(t < s)

\* The invocation of slot s is now at iv: pending on an await, or returned.
\* lastReturn holds the latest return, until the next call that goes pending.
Settle(s, iv) ==
    IF iv.pc = "validating"
    THEN /\ inv' = [inv EXCEPT ![s] = iv]
         /\ lastReturn' = IF inv[s].pc = "idle" THEN InvIdle ELSE lastReturn
    ELSE /\ inv' = [inv EXCEPT ![s] = InvIdle]
         /\ lastReturn' = iv

\* finally { setIsValidating(false); }: the latch when the invocation returns
\* through its try block.
latchAtReturnKept(latch) == latch

latchAtReturn(latch) == FALSE

\* cyclePrevProject() / cycleNextProject() is called: the guard, the latch,
\* and the loop up to the first await (or the return through finally).
CycleStart(s, dir) ==
    /\ FreeSlot(s)
    /\ IF cycleGuard(rendered)
       THEN /\ Settle(s, [InvIdle EXCEPT !.pc = "done", !.dir = dir, !.outcome = "guarded"])
            /\ UNCHANGED isValidating
       ELSE /\ Settle(s, cycleBegin(dir, rendered))
            \* setIsValidating(true); finally setIsValidating(false) on return
            /\ isValidating' = IF cycleBegin(dir, rendered).pc = "validating"
                               THEN TRUE ELSE latchAtReturn(TRUE)
    /\ UNCHANGED <<storeVars, rendered, route, validationDialogOpen, validateVars, createVars, registryVars>>

\* const isValid = await validateProjectPath(targetProject); if (isValid)
isValidAnswerIgnored(answer) == TRUE

isValidAnswer(answer) == answer = "true"

\* switchProjectForCycling(targetProject, validHistory, newIndex); navigate
\* `await validateProjectPath(targetProject)` settles: commit, or go on with
\* the loop up to the next await or the end.
CycleResume(s, answer) ==
    /\ inv[s].pc = "validating"
    /\ LET iv == inv[s]
           isValid == isValidAnswer(answer)
           \* results keeps what each validation of this invocation answered
           answered == Append(iv.results, answer = "true")
           skipped == cycleLoop([iv EXCEPT !.attempts = @ + 1, !.results = answered])
       IN IF isValid
          THEN /\ currentProject' = iv.target
               /\ projectHistory' = iv.validHistory
               /\ projectHistoryIndex' = iv.newIndex
               /\ currentView' = "board"
               /\ route' = "/board"
               /\ isValidating' = latchAtReturn(isValidating)
               /\ Settle(s, Returned([iv EXCEPT !.outcome = "committed",
                                               !.results = answered]))
               /\ UNCHANGED projects
          ELSE /\ Settle(s, skipped)
               /\ isValidating' = IF skipped.pc = "validating" THEN isValidating
                                  ELSE latchAtReturn(isValidating)
               /\ UNCHANGED <<storeVars, route>>
    /\ UNCHANGED <<rendered, validationDialogOpen, validateVars, createVars, registryVars>>

\* React renders the hook again: the callbacks close over the live values.
Render ==
    /\ rendered # Live
    /\ rendered' = Live
    /\ UNCHANGED <<storeVars, isValidating, inv, lastReturn, route,
                   validationDialogOpen, validateVars, createVars, registryVars>>

\* The store's removeProject(id): the project leaves the active list; the
\* history keeps its id.
MaxRemovals == 1

RemoveProject(id) ==
    /\ Len(projects) > Len(AllProjects) - MaxRemovals
    /\ \E k \in 1..Len(projects) : projects[k].id = id
    /\ projects' = SelectSeq(projects, LAMBDA p : p.id # id)
    /\ UNCHANGED <<projectHistory, projectHistoryIndex, currentProject, currentView,
                   hookVars, validateVars, createVars, registryVars>>

(***************************************************************************)
(* createCreateHandler: POST /create                                       *)
(* Strings are sequences of characters; a path separator and a path         *)
(* segment of the inputs are one element each.                              *)
(***************************************************************************)
Calls == {1, 2}

RepoPath == <<"/", "repo">>

PlainPath == <<"/", "plain">>

ProjectPaths == {<<>>, RepoPath, PlainPath}

Main == <<"m", "a", "i", "n">>

HeadRef == <<"H", "E", "A", "D">>

BranchNames == {<<>>, <<"f", "/", "x">>, <<"f", ".", "x">>, <<"f", " ", "x">>}

BaseBranches == {<<>>, Main}

\* [a-zA-Z0-9_-]
SafeChars ==
    {"a", "b", "c", "d", "e", "f", "g", "h", "i", "j", "k", "l", "m", "n", "o", "p", "q",
     "r", "s", "t", "u", "v", "w", "x", "y", "z",
     "A", "B", "C", "D", "E", "F", "G", "H", "I", "J", "K", "L", "M", "N", "O", "P", "Q",
     "R", "S", "T", "U", "V", "W", "X", "Y", "Z",
     "0", "1", "2", "3", "4", "5", "6", "7", "8", "9", "_", "-"}

\* branchName.replace(/[^a-zA-Z0-9_-]/g, "-")
sanitize(name) == [i \in 1..Len(name) |-> IF name[i] \in SafeChars THEN name[i] ELSE "-"]

\* path.join(a, b) with the platform's separator; on win32 every forward
\* slash of the result is a backslash.
pathJoin(a, b) ==
    LET joined == IF b = <<>> THEN a ELSE a \o <<pathSep>> \o b
    IN IF pathSep = "\\"
       THEN [i \in 1..Len(joined) |-> IF joined[i] = "/" THEN "\\" ELSE joined[i]]
       ELSE joined

\* normalizePath: p.replace(/\\/g, "/")
normalizePath(p) == [i \in 1..Len(p) |-> IF p[i] = "\\" THEN "/" ELSE p[i]]

\* path.join(projectPath, ".worktrees")
worktreesDir(projectPath) == pathJoin(projectPath, <<".worktrees">>)

\* path.join(worktreesDir, sanitizedName)
worktreePathOf(projectPath, branchName) ==
    pathJoin(worktreesDir(projectPath), sanitize(branchName))

\* exec() hands the command line to a shell: text interpolated without
\* quotes is split into words at spaces.
RECURSIVE splitWords(_, _, _)
splitWords(str, word, words) ==
    IF str = <<>> THEN (IF word = <<>> THEN words ELSE Append(words, word))
    ELSE IF str[1] = " "
         THEN splitWords(Tail(str), <<>>, IF word = <<>> THEN words ELSE Append(words, word))
         ELSE splitWords(Tail(str), Append(word, str[1]), words)

shellWords(str) == splitWords(str, <<>>, <<>>)

FlagB == <<"-", "b">>

\* `git rev-parse --verify ${branchName}`: the arguments after --verify
verifyArgs(branchName) == shellWords(branchName)

\* `git worktree add "${worktreePath}" ${branchName}`, or
\* `git worktree add -b ${branchName} "${worktreePath}" ${base}` with
\* base = baseBranch || "HEAD": the arguments after `add`
createArgsAlwaysNew(branchExists, branchName, worktreePath, baseBranch) ==
    <<FlagB>> \o shellWords(branchName) \o <<worktreePath>>
    \o shellWords(IF baseBranch = <<>> THEN HeadRef ELSE baseBranch)

createArgs(branchExists, branchName, worktreePath, baseBranch) ==
    IF branchExists
    THEN <<worktreePath>> \o shellWords(branchName)
    ELSE <<FlagB>> \o shellWords(branchName) \o <<worktreePath>>
         \o shellWords(IF baseBranch = <<>> THEN HeadRef ELSE baseBranch)

\* git rev-parse --verify <arg>: succeeds for exactly one argument that
\* names an existing branch, when the tool itself works.
revParseVerify(args, toolOk) == toolOk /\ Len(args) = 1 /\ args[1] \in branches

\* git worktree add [-b <new-branch>] <path> <commit-ish>: what git reads
\* from the arguments.
NoBranch == <<>>

parseWorktreeAdd(args) ==
    IF args # <<>> /\ args[1] = FlagB
    THEN [usage |-> Len(args) = 4, newBranch |-> At(args, 1), path |-> At(args, 2),
          commitish |-> At(args, 3)]
    ELSE [usage |-> Len(args) = 2, newBranch |-> NoBranch, path |-> At(args, 0),
          commitish |-> At(args, 1)]

existingDirs == {w.path : w \in worktrees}

\* Why git refuses the command in the current repository, if it does.
addRefusals(args) ==
    LET p == parseWorktreeAdd(args)
    IN IF ~p.usage THEN {"usage"}
       ELSE (IF p.path \in existingDirs THEN {"pathExists"} ELSE {})
            \cup (IF p.newBranch # NoBranch /\ p.newBranch \in branches
                  THEN {"branchExists"} ELSE {})
            \cup (IF p.commitish \notin branches \cup {HeadRef} THEN {"badRevision"} ELSE {})
            \cup (IF p.newBranch = NoBranch
                     /\ \E w \in worktrees : w.branch = p.commitish
                  THEN {"checkedOut"} ELSE {})

\* ---- responses
\* An error message, and the branch name it quotes if it quotes one.
Message(text) == [message |-> text, name |-> <<>>]

NoWorktree == [path |-> <<>>, branch |-> <<>>, isNew |-> FALSE]

Response(status, error, worktree) ==
    [status |-> status, error |-> error, worktree |-> worktree]

\* res.status(400).json({ success: false, error })
BadRequest(error) == Response(400, error, NoWorktree)

\* catch (error): res.status(500).json({ success: false, error: getErrorMessage(error) })
ServerError(message) == Response(500, message, NoWorktree)

CallIdle ==
    [pc |-> "idle", projectPath |-> <<>>, branchName |-> <<>>, baseBranch |-> <<>>,
     worktreePath |-> <<>>, branchExists |-> FALSE, createArgs |-> <<>>,
     refused |-> {}, steps |-> <<>>, responses |-> <<>>]

\* The call did the step and goes on to pc.
Goes(c, step, pc) == [call[c] EXCEPT !.pc = pc, !.steps = Append(@, step)]

\* The call did the step and answered.
AnswersNothing(c, step, response) ==
    [call[c] EXCEPT !.pc = "done", !.steps = Append(@, step)]

Answers(c, step, response) ==
    [call[c] EXCEPT !.pc = "done", !.steps = Append(@, step),
                    !.responses = Append(@, response)]

\* if (!projectPath || !branchName)
argsMissingPathOnly(projectPath, branchName) == projectPath = <<>>

argsMissing(projectPath, branchName) == projectPath = <<>> \/ branchName = <<>>

\* The request arrives (requests are numbered in their order of arrival):
\* the argument check, up to `await isGitRepo`.
CreateRequest(c, projectPath, branchName, baseBranch) ==
    /\ call[c].pc = "idle"
    /\ \A b \in Calls : b < c => call[b].pc # "idle"
    /\ LET fresh == [CallIdle EXCEPT !.projectPath = projectPath,
                                     !.branchName = branchName,
                                     !.baseBranch = baseBranch,
                                     !.steps = <<"args">>]
       IN call' = [call EXCEPT ![c] =
              IF argsMissing(projectPath, branchName)
              THEN [fresh EXCEPT !.pc = "done",
                                 !.responses = <<BadRequest(Message("projectPath and branchName required"))>>]
              ELSE [fresh EXCEPT !.pc = "isGitRepo"]]
    /\ UNCHANGED <<pathSep, repoVars, removals, validateVars, cycleVars, registryVars>>

\* isGitRepo: git rev-parse --is-inside-work-tree in repoPath; any failure
\* is false.
isGitRepo(repoPath, toolOk) == repoPath = RepoPath /\ toolOk

\* `await isGitRepo(projectPath)` settles; the paths are computed, up to
\* `await mkdir`.
RepoProbe(c, toolOk) ==
    /\ call[c].pc = "isGitRepo"
    /\ call' = [call EXCEPT ![c] =
           IF ~isGitRepo(call[c].projectPath, toolOk)
           THEN Answers(c, "repoProbe", BadRequest(Message("Not a git repository")))
           ELSE [Goes(c, "repoProbe", "mkdir") EXCEPT
                    !.worktreePath = worktreePathOf(call[c].projectPath, call[c].branchName)]]
    /\ UNCHANGED <<pathSep, repoVars, removals, validateVars, cycleVars, registryVars>>

\* `await mkdir(worktreesDir, { recursive: true })` settles, up to
\* `await access(worktreePath)`.
Mkdir(c, ok) ==
    /\ call[c].pc = "mkdir"
    /\ IF ok
       THEN /\ containerExists' = TRUE
            /\ call' = [call EXCEPT ![c] = Goes(c, "mkdir", "access")]
       ELSE /\ call' = [call EXCEPT ![c] = Answers(c, "mkdir", ServerError(Message("mkdir failed")))]
            /\ UNCHANGED containerExists
    /\ UNCHANGED <<pathSep, worktrees, branches, tracked, removals, validateVars, cycleVars, registryVars>>

\* `await access(worktreePath)` settles: resolved means the path exists.
accessNever(path) == FALSE

access(path) == path \in existingDirs

WorktreeExists(branchName) == [message |-> "Worktree already exists", name |-> branchName]

Access(c) ==
    /\ call[c].pc = "access"
    /\ call' = [call EXCEPT ![c] =
           IF access(call[c].worktreePath)
           THEN Answers(c, "access", BadRequest(WorktreeExists(call[c].branchName)))
           ELSE Goes(c, "access", "revParse")]
    /\ UNCHANGED <<pathSep, repoVars, removals, validateVars, cycleVars, registryVars>>

\* `await execAsync(git rev-parse --verify ...)` settles: branchExists, and
\* the create command is chosen, up to `await execAsync(createCmd)`.
BranchProbeRaises(c, toolOk) ==
    /\ call[c].pc = "revParse"
    /\ call' = [call EXCEPT ![c] =
           IF toolOk /\ Len(verifyArgs(call[c].branchName)) = 1
           THEN [Goes(c, "branchProbe", "worktreeAdd") EXCEPT
                    !.branchExists = verifyArgs(call[c].branchName)[1] \in branches,
                    !.createArgs =
                        createArgs(verifyArgs(call[c].branchName)[1] \in branches,
                                   call[c].branchName, call[c].worktreePath,
                                   call[c].baseBranch)]
           ELSE Answers(c, "branchProbe", ServerError(Message("Command failed")))]
    /\ UNCHANGED <<pathSep, repoVars, removals, validateVars, cycleVars, registryVars>>

BranchProbe(c, toolOk) ==
    /\ call[c].pc = "revParse"
    /\ LET branchExists == revParseVerify(verifyArgs(call[c].branchName), toolOk)
       IN call' = [call EXCEPT ![c] =
              [Goes(c, "branchProbe", "worktreeAdd") EXCEPT
                  !.branchExists = branchExists,
                  !.createArgs = createArgs(branchExists, call[c].branchName,
                                            call[c].worktreePath, call[c].baseBranch)]]
    /\ UNCHANGED <<pathSep, repoVars, removals, validateVars, cycleVars, registryVars>>

\* `await execAsync(createCmd)` settles, up to `await trackBranch`.
WorktreeAdd(c, toolOk) ==
    /\ call[c].pc = "worktreeAdd"
    /\ LET p == parseWorktreeAdd(call[c].createArgs)
           refusals == addRefusals(call[c].createArgs)
       IN IF refusals = {} /\ toolOk
          THEN /\ worktrees' = worktrees \cup
                      {[path |-> p.path,
                        branch |-> IF p.newBranch # NoBranch THEN p.newBranch
                                   ELSE p.commitish]}
               /\ branches' = IF p.newBranch # NoBranch THEN branches \cup {p.newBranch}
                              ELSE branches
               /\ call' = [call EXCEPT ![c] = Goes(c, "create", "track")]
          ELSE /\ call' = [call EXCEPT ![c] =
                      [Answers(c, "create", ServerError(Message("Command failed"))) EXCEPT
                          !.refused = refusals]]
               /\ UNCHANGED <<worktrees, branches>>
    /\ UNCHANGED <<pathSep, containerExists, tracked, removals, validateVars, cycleVars, registryVars>>

\* trackBranch(projectPath, branchName): one ledger entry per pair.
trackBranchAppend(ledger, projectPath, branchName) ==
    Append(ledger, [projectPath |-> projectPath, branchName |-> branchName])

trackBranch(ledger, projectPath, branchName) ==
    IF \E k \in 1..Len(ledger) :
           ledger[k] = [projectPath |-> projectPath, branchName |-> branchName]
    THEN ledger
    ELSE Append(ledger, [projectPath |-> projectPath, branchName |-> branchName])

\* `await trackBranch(projectPath, branchName)` settles, and res.json(...).
TrackBranchSkipped(c, ok) ==
    /\ call[c].pc = "track"
    /\ call' = [call EXCEPT ![c] =
           Answers(c, "track",
               Response(200, Message(""),
                   [path |-> normalizePath(call[c].worktreePath),
                    branch |-> call[c].branchName,
                    isNew |-> ~call[c].branchExists]))]
    /\ UNCHANGED <<pathSep, repoVars, removals, validateVars, cycleVars, registryVars>>

TrackBranch(c, ok) ==
    /\ call[c].pc = "track"
    /\ IF ok
       THEN /\ tracked' = trackBranch(tracked, call[c].projectPath, call[c].branchName)
            /\ call' = [call EXCEPT ![c] =
                   Answers(c, "track",
                       Response(200, Message(""),
                           [path |-> normalizePath(call[c].worktreePath),
                            branch |-> call[c].branchName,
                            isNew |-> ~call[c].branchExists]))]
       ELSE /\ call' = [call EXCEPT ![c] = Answers(c, "track", ServerError(Message("track failed")))]
            /\ UNCHANGED tracked
    /\ UNCHANGED <<pathSep, containerExists, worktrees, branches, removals, validateVars,
                   cycleVars, registryVars>>

\* Another program deletes a worktree directory (and prunes the worktree).
MaxExternalRemovals == 1

ExternalRemove(path) ==
    /\ removals < MaxExternalRemovals
    /\ path \in existingDirs
    /\ worktrees' = {w \in worktrees : w.path # path}
    /\ removals' = removals + 1
    /\ UNCHANGED <<call, pathSep, containerExists, branches, tracked, validateVars, cycleVars, registryVars>>

(***************************************************************************)
(* The app store's registry operations (projects and trashedProjects)      *)
(* A trashed project is modelled by its project record; trashedAt is not   *)
(* read by any code here.                                                  *)
(***************************************************************************)
\* The user starts at most MaxClicks operations.
MaxClicks == 6

Click == clicks < MaxClicks /\ clicks' = clicks + 1

idsOf(projs) == {projs[k].id : k \in 1..Len(projs)}

without(projs, id) == SelectSeq(projs, LAMBDA p : p.id # id)

\* moveProjectToTrash(id): Active -> Trashed.
MoveToTrash(id) ==
    /\ Click
    /\ id \in idsOf(projects)
    /\ trashedProjects' = Append(without(trashedProjects, id), find(projects, id))
    /\ projects' = without(projects, id)
    /\ toast' = ""
    /\ UNCHANGED <<currentProject, route, validationDialogOpen, cyclerVars, activeTrashId,
                   isEmptyingTrash, restoreOp, deleteOp, gone, repairVars,
                   validateVars, createVars>>

\* restoreTrashedProject(id): the record moves back to the active set with
\* its id and path; an id that is not in the trash changes nothing.
restoredProjects(projs, trashed, id) ==
    IF id \in idsOf(trashed) THEN Append(without(projs, id), find(trashed, id)) ELSE projs

\* deleteTrashedProject(id), and the remaining trash of restoreTrashedProject(id)
deleteTrashedProject(trashed, id) == without(trashed, id)

(***************************************************************************)
(* useTrashOperations                                                      *)
(***************************************************************************)
NoId == "none"

\* A pending handler run; answer keeps what its await settled with, and
\* toast is what the latest handler run showed ("" for nothing).
OpIdle == [pc |-> "idle", project |-> NoProject, answer |-> ""]

\* if (!isValid) ... return
restoreAllowedAlways(answer) == TRUE

restoreAllowed(answer) == answer = "true"

\* handleRestoreProject(projectId), up to `await validateProjectPath(project)`.
RestoreStart(id) ==
    /\ Click
    /\ restoreOp.pc = "idle"
    /\ LET project == find(trashedProjects, id)
       IN IF project = NoProject
          THEN /\ toast' = "Project not found"
               /\ UNCHANGED restoreOp
          ELSE /\ restoreOp' = [pc |-> "validating", project |-> project, answer |-> ""]
               /\ toast' = ""
    /\ UNCHANGED <<storeVars, hookVars, trashedProjects, activeTrashId, isEmptyingTrash,
                   deleteOp, gone, repairVars, validateVars, createVars>>

\* The validation settles: refused, or restoreTrashedProject(projectId) and
\* the success toast. A store call that throws ends in the catch block.
RestoreResume(answer, storeThrows) ==
    /\ UNCHANGED clicks
    /\ restoreOp.pc = "validating"
    /\ restoreOp' = [OpIdle EXCEPT !.answer = answer]
    /\ LET id == restoreOp.project.id
       IN IF answer \notin {"true", "false"}
          THEN /\ toast' = "Failed to restore project"
               /\ UNCHANGED <<projects, trashedProjects>>
          ELSE IF ~restoreAllowed(answer)
          THEN /\ toast' = "Project path not found"
               /\ UNCHANGED <<projects, trashedProjects>>
          ELSE /\ projects' = restoredProjects(projects, trashedProjects, id)
               /\ trashedProjects' = deleteTrashedProject(trashedProjects, id)
               /\ toast' = IF id \notin idsOf(trashedProjects) /\ storeThrows
                           THEN "Failed to restore project"
                           ELSE "Project restored"
    /\ UNCHANGED <<currentProject, route, validationDialogOpen, cyclerVars, activeTrashId,
                   isEmptyingTrash, deleteOp, gone, repairVars, validateVars, createVars>>

\* What api.trashItem can be and answer.
TrashItemOutcomes == {"success", "failure", "throw"}

\* if (!result.success) throw
trashedOnDiskAlways(outcome) == TRUE

trashedOnDisk(outcome) == outcome = "success"

\* handleDeleteProjectFromDisk(trashedProject), up to `await api.trashItem`;
\* without api.trashItem the whole handler runs: the throw, the catch and
\* the finally.
DeleteStart(id, available) ==
    /\ Click
    /\ deleteOp.pc = "idle"
    /\ id \in idsOf(trashedProjects)
    /\ IF available
       THEN /\ activeTrashId' = id
            /\ deleteOp' = [pc |-> "trashItem", project |-> find(trashedProjects, id),
                             answer |-> ""]
            /\ toast' = ""
       ELSE /\ activeTrashId' = NoId
            /\ toast' = "Failed to delete project folder"
            /\ UNCHANGED deleteOp
    /\ UNCHANGED <<storeVars, hookVars, trashedProjects, isEmptyingTrash, restoreOp, gone,
                   repairVars, validateVars, createVars>>

\* api.trashItem settles: deleteTrashedProject(id) on success; the finally
\* block clears activeTrashId.
DeleteResume(outcome) ==
    /\ UNCHANGED clicks
    /\ deleteOp.pc = "trashItem"
    /\ deleteOp' = [OpIdle EXCEPT !.answer = outcome]
    /\ activeTrashId' = NoId
    /\ LET id == deleteOp.project.id
       IN IF trashedOnDisk(outcome)
          THEN /\ trashedProjects' = deleteTrashedProject(trashedProjects, id)
               /\ gone' = gone \cup ({id} \cap idsOf(trashedProjects))
               /\ toast' = "Project folder sent to system Trash"
          ELSE /\ toast' = "Failed to delete project folder"
               /\ UNCHANGED <<trashedProjects, gone>>
    /\ UNCHANGED <<storeVars, hookVars, isEmptyingTrash, restoreOp, repairVars,
                   validateVars, createVars>>

\* handleEmptyTrash(): setIsEmptyingTrash(true), emptyTrash(), and the
\* finally block's setIsEmptyingTrash(false); a store that fails commits
\* nothing.
EmptyTrash(ok) ==
    /\ Click
    /\ isEmptyingTrash' = FALSE
    /\ IF ok
       THEN /\ trashedProjects' = <<>>
            /\ gone' = gone \cup idsOf(trashedProjects)
            /\ toast' = "Recycle bin cleared"
       ELSE /\ toast' = "Failed to clear recycle bin"
            /\ UNCHANGED <<trashedProjects, gone>>
    /\ UNCHANGED <<storeVars, hookVars, activeTrashId, restoreOp, deleteOp, repairVars,
                   validateVars, createVars>>

(***************************************************************************)
(* useProjectPathValidation and ProjectPathValidationDialog                *)
(***************************************************************************)
NewPath == "/moved"

\* What openFileBrowser resolves to: null when the user cancels.
PickedPaths == {"", NewPath}

\* new Date().toISOString(), later than every lastOpened of the start
Now == 1

RepairIdle ==
    [pc |-> "idle", project |-> NoProject, projects |-> <<>>, newPath |-> "", answer |-> ""]

\* showValidationDialog(project)
ShowValidationDialog(id) ==
    /\ Click
    /\ ~validationDialogOpen
    /\ id \in idsOf(projects)
    /\ invalidProject' = find(projects, id)
    /\ validationDialogOpen' = TRUE
    /\ toast' = ""
    /\ UNCHANGED <<storeVars, isValidating, rendered, inv, lastReturn, route, trashVars,
                   repairOp, validateVars, createVars>>

\* The dialog's handleRefreshPath, up to `await openFileBrowser`; the hook's
\* callback it will call closes over the projects of this render.
RepairStart ==
    /\ Click
    /\ validationDialogOpen
    /\ invalidProject # NoProject
    /\ repairOp.pc = "idle"
    /\ repairOp' = [pc |-> "picking", project |-> invalidProject, projects |-> projects,
                    newPath |-> "", answer |-> ""]
    /\ toast' = ""
    /\ UNCHANGED <<storeVars, hookVars, trashVars, invalidProject, validateVars, createVars>>

\* The picker settles: cancelled, or onRefreshPath(project, newPath) up to
\* `await validateProjectPath`.
RepairPicked(newPath) ==
    /\ UNCHANGED clicks
    /\ repairOp.pc = "picking"
    /\ repairOp' = IF newPath = "" THEN RepairIdle
                   ELSE [repairOp EXCEPT !.pc = "validating", !.newPath = newPath]
    /\ toast' = ""
    /\ UNCHANGED <<storeVars, hookVars, trashVars, invalidProject, validateVars, createVars>>

\* if (!isValid) ... return; // Stay on dialog
pathAcceptedAlways(answer) == TRUE

pathAccepted(answer) == answer = "true"

\* projects.map((p) => (p.id === project.id ? updatedProject : p))
updatedProjects(projs, updatedProject) ==
    [k \in 1..Len(projs) |-> IF projs[k].id = updatedProject.id THEN updatedProject ELSE projs[k]]

\* The validation of the new path settles.
RepairResume(answer) ==
    /\ UNCHANGED clicks
    /\ repairOp.pc = "validating"
    /\ repairOp' = [RepairIdle EXCEPT !.answer = answer]
    /\ IF answer \notin {"true", "false"}
       THEN /\ toast' = "Failed to update path"
            /\ UNCHANGED <<projects, currentProject, validationDialogOpen, route>>
       ELSE IF ~pathAccepted(answer)
       THEN /\ toast' = "Invalid path"
            /\ UNCHANGED <<projects, currentProject, validationDialogOpen, route>>
       ELSE LET updatedProject == [repairOp.project EXCEPT !.path = repairOp.newPath,
                                                           !.lastOpened = Now]
            IN /\ projects' = updatedProjects(repairOp.projects, updatedProject)
               /\ currentProject' = updatedProject
               /\ validationDialogOpen' = FALSE
               /\ route' = "/board"
               /\ toast' = "Project path updated"
    /\ UNCHANGED <<cyclerVars, trashVars, invalidProject, validateVars, createVars>>

\* The dialog's handleRemoveProject: onRemoveProject(project), onOpenChange(false).
RepairRemove ==
    /\ Click
    /\ validationDialogOpen
    /\ invalidProject # NoProject
    /\ projects' = without(projects, invalidProject.id)
    /\ currentProject' = NoProject
    /\ validationDialogOpen' = FALSE
    /\ route' = "/"
    /\ toast' = "Project removed"
    /\ UNCHANGED <<cyclerVars, trashVars, repairVars, validateVars, createVars>>

\* handleDismiss: setCurrentProject(null)
dismissedCurrentKept(current) == current

dismissedCurrent(current) == NoProject

\* The dialog's handleDismiss: onDismiss(), onOpenChange(false).
RepairDismiss ==
    /\ Click
    /\ validationDialogOpen
    /\ currentProject' = dismissedCurrent(currentProject)
    /\ validationDialogOpen' = FALSE
    /\ toast' = ""
    /\ UNCHANGED <<projects, route, cyclerVars, trashVars, repairVars, validateVars,
                   createVars>>

(***************************************************************************)
(* Initial states and specifications                                       *)
(***************************************************************************)
\* The store keeps the history free of duplicates, most recent first; the
\* ids being interchangeable, the histories <<>>, <<A>>, <<A, B>>, ... stand
\* for every order.
NoCalls == vcall = [v \in VSlots |-> VIdle]

Mounted ==
    /\ projects = AllProjects
    /\ projectHistory \in {SubSeq(IdNames, 1, n) : n \in 0..Len(IdNames)}
    /\ currentProject \in {NoProject} \cup {Project(id) : id \in ProjectIds}
    /\ projectHistoryIndex = startIndex(projectHistory, currentProject)
    /\ currentView = "settings"
    /\ route = "/settings"
    /\ validationDialogOpen = FALSE
    /\ isValidating = FALSE
    /\ rendered = Live
    /\ inv = [s \in InvSlots |-> InvIdle]
    /\ lastReturn = InvIdle

\* validateProjectPath alone, against every answer of the API.
NextValidate ==
    \/ \E v \in VSlots, project \in VInputs : ValidateCall(v, project)
    \/ \E v \in VSlots, ex \in ExistsOutcomes : ValidateExists(v, ex)
    \/ \E v \in VSlots, st \in StatOutcomes : ValidateStat(v, st)

\* The server has handled no request; the repository has its main branch,
\* and possibly the branch f/x already.
\* Nothing is in the trash and no dialog is open.
EmptyTrashBin ==
    /\ trashedProjects = <<>>
    /\ activeTrashId = NoId
    /\ isEmptyingTrash = FALSE
    /\ invalidProject = NoProject
    /\ restoreOp = OpIdle
    /\ deleteOp = OpIdle
    /\ repairOp = RepairIdle
    /\ toast = ""
    /\ gone = {}
    /\ clicks = 0

FreshRepo ==
    /\ EmptyTrashBin
    /\ call = [c \in Calls |-> CallIdle]
    /\ containerExists = FALSE
    /\ worktrees = {}
    /\ tracked = <<>>
    /\ removals = 0

InitValidate ==
    /\ NoCalls
    /\ Mounted
    /\ FreshRepo
    /\ pathSep = "/"
    /\ branches = {Main}
    /\ projectHistory = <<>>
    /\ currentProject = NoProject

SpecValidate == InitValidate /\ [][NextValidate]_vars

\* The cycling hook, the store and the disk.
NextCycle ==
    \/ \E s \in InvSlots, dir \in Directions : CycleStart(s, dir)
    \/ \E s \in InvSlots : \E answer \in ValidateAnswers(inv[s].target) : CycleResume(s, answer)
    \/ Render
    \/ \E id \in ProjectIds : RemoveProject(id)

InitCycle ==
    /\ NoCalls
    /\ Mounted
    /\ FreshRepo
    /\ pathSep = "/"
    /\ branches = {Main}

SpecCycle == InitCycle /\ [][NextCycle]_vars

\* The create route: two request handlers, the repository and the ledger.
NextCreate ==
    \/ \E c \in Calls, projectPath \in ProjectPaths, branchName \in BranchNames,
          baseBranch \in BaseBranches : CreateRequest(c, projectPath, branchName, baseBranch)
    \/ \E c \in Calls, toolOk \in BOOLEAN : RepoProbe(c, toolOk)
    \/ \E c \in Calls, ok \in BOOLEAN : Mkdir(c, ok)
    \/ \E c \in Calls : Access(c)
    \/ \E c \in Calls, toolOk \in BOOLEAN : BranchProbe(c, toolOk)
    \/ \E c \in Calls, toolOk \in BOOLEAN : WorktreeAdd(c, toolOk)
    \/ \E c \in Calls, ok \in BOOLEAN : TrackBranch(c, ok)
    \/ \E path \in existingDirs : ExternalRemove(path)

InitCreate ==
    /\ NoCalls
    /\ Mounted
    /\ projectHistory = <<>>
    /\ currentProject = NoProject
    /\ FreshRepo
    /\ pathSep \in {"/", "\\"}
    /\ branches \in {{Main}, {Main, <<"f", "/", "x">>}}

SpecCreate == InitCreate /\ [][NextCreate]_vars

\* The registry: the trash operations and the path-repair flow, with every
\* answer of the validation, the system trash and the picker.
NextRegistry ==
    \/ \E id \in ProjectIds : MoveToTrash(id)
    \/ \E id \in ProjectIds : RestoreStart(id)
    \/ \E answer \in ValidateAnswers(restoreOp.project), storeThrows \in BOOLEAN :
          RestoreResume(answer, storeThrows)
    \/ \E id \in ProjectIds, available \in BOOLEAN : DeleteStart(id, available)
    \/ \E outcome \in TrashItemOutcomes : DeleteResume(outcome)
    \/ \E ok \in BOOLEAN : EmptyTrash(ok)
    \/ \E id \in ProjectIds : ShowValidationDialog(id)
    \/ RepairStart
    \/ \E newPath \in PickedPaths : RepairPicked(newPath)
    \/ \E answer \in ValidateAnswers([repairOp.project EXCEPT !.path = repairOp.newPath]) :
          RepairResume(answer)
    \/ RepairRemove
    \/ RepairDismiss

\* The registry starts with the projects A and B, A being the current one.
InitRegistry ==
    /\ NoCalls
    /\ projects = SubSeq(AllProjects, 1, 2)
    /\ projectHistory = <<>>
    /\ currentProject = Project("A")
    /\ projectHistoryIndex = 0
    /\ currentView = "board"
    /\ route = "/board"
    /\ validationDialogOpen = FALSE
    /\ isValidating = FALSE
    /\ rendered = Live
    /\ inv = [s \in InvSlots |-> InvIdle]
    /\ lastReturn = InvIdle
    /\ FreshRepo
    /\ pathSep = "/"
    /\ branches = {Main}

SpecRegistry == InitRegistry /\ [][NextRegistry]_vars

(***************************************************************************)
(* Properties                                                              *)
(***************************************************************************)
\* C1: validateProjectPath never raises and returns a boolean; it returns
\* true only for a non-empty path for which exists() answered exactly true
\* and stat() answered success with isDirectory true, and false in every
\* other case (no path, exists not true, stat failure, exception).
C1_ValidateTotal ==
    /\ \A v \in VSlots :
          vcall[v].pc = "done" =>
              /\ vcall[v].result \in {"true", "false"}
              /\ vcall[v].result = "true" <=>
                     /\ vcall[v].project # NoProject
                     /\ vcall[v].project.path # ""
                     /\ vcall[v].ex = "true"
                     /\ vcall[v].st = "ok_dir"
    /\ \A project \in VInputs, ex \in ExistsOutcomes, st \in StatOutcomes :
          /\ validateProjectPath(project, ex, st) \in {"true", "false"}
          /\ validateProjectPath(project, ex, st) = "true" <=>
                 (project # NoProject /\ project.path # "" /\ ex = "true" /\ st = "ok_dir")

\* C1 witness: one call returned true and another returned false after
\* stat() threw.
C1_Witness ==
    \E v, w \in VSlots :
        /\ vcall[v].pc = "done" /\ vcall[v].result = "true"
        /\ vcall[w].pc = "done" /\ vcall[w].st = "throw" /\ vcall[w].result = "false"

\* ---- the cycle as the claims describe it
\* The 0-based position a cycle should try at its k-th offset.
ExpectedPos(dir, i, k, n) ==
    IF dir = "prev" THEN (i + k) % n ELSE (i + n * k - k) % n

\* The ids a cycle may land on, in the order of the requested direction from
\* the current position, without the current project.
Candidates(iv) ==
    LET n == Len(iv.validHistory)
        walk == [k \in 1..n |-> iv.validHistory[ExpectedPos(iv.dir, iv.currentIndex, k, n) + 1]]
    IN SelectSeq(walk, LAMBDA id : id # iv.currentProject.id)

Nth(seq, k) == IF k \in 1..Len(seq) THEN seq[k] ELSE "undefined"

AllFalse(results) == \A k \in 1..Len(results) : results[k] = FALSE

\* The current project sits in the invocation's validHistory, which has at
\* least two entries.
CurrentInHistory(iv) ==
    /\ Len(iv.validHistory) >= 2
    /\ indexOf(iv.validHistory, iv.currentProject.id) >= 0

\* The invocation of slot s after a step of it: still pending, or returned.
Post(s) == IF inv'[s].pc = "validating" THEN inv'[s] ELSE lastReturn'

Resumes(s) == inv[s].pc = "validating" /\ inv'[s] # inv[s]

Commits(s) == Resumes(s) /\ Post(s).outcome = "committed"

Skips(s) == Resumes(s) /\ Post(s).results = Append(inv[s].results, FALSE)

\* C2: with the current project at position i of validHistory (n >= 2) and
\* the candidate validating, cyclePrevProject makes validHistory[(i+1) mod n]
\* current and cycleNextProject makes validHistory[(i-1) mod n] current,
\* wrapping at both ends: the invocation first validates that neighbour, and
\* commits it when the validation answers true.
C2_CycleLandsOnNeighbour ==
    [][/\ (lastReturn'.results = <<>>) => ~CurrentInHistory(lastReturn')
       /\ \A s \in InvSlots :
          LET iv == inv[s]
              jv == inv'[s]
              n == Len(iv.validHistory)
              i == indexOf(iv.validHistory, iv.currentProject.id)
              pos == ExpectedPos(iv.dir, i, 1, n)
          IN /\ (jv.pc = "validating" /\ CurrentInHistory(jv) /\ jv.results = <<>>) =>
                    jv.target.id =
                         jv.validHistory[ExpectedPos(jv.dir,
                             indexOf(jv.validHistory, jv.currentProject.id), 1,
                             Len(jv.validHistory)) + 1]
             /\ (Resumes(s) /\ CurrentInHistory(iv) /\ iv.results = <<>>
                 /\ Post(s).results = <<TRUE>>) =>
                    /\ Post(s).outcome = "committed"
                    /\ currentProject'.id = iv.validHistory[pos + 1]
                    /\ projectHistoryIndex' = pos
                    /\ projectHistory'[projectHistoryIndex' + 1] = currentProject'.id
      ]_vars

\* C2 witness: cycleNextProject from position 0 landed on position n-1 of a
\* three-entry history.
C2_Witness ==
    /\ lastReturn.outcome = "committed" /\ lastReturn.dir = "next"
    /\ Len(lastReturn.validHistory) = 3
    /\ indexOf(lastReturn.validHistory, lastReturn.currentProject.id) = 0
    /\ lastReturn.results = <<TRUE>>
    /\ currentProject.id = lastReturn.validHistory[3]
    /\ projectHistoryIndex = 2

\* C3: a cycle lands on the first candidate, in the requested direction from
\* the current position, that differs from the current project and whose
\* path validates; a candidate that fails validation is skipped without
\* touching the store, the route or the validation dialog, and is never made
\* current by that cycle.
C3_CycleSkipsInvalid ==
    [][\A s \in InvSlots :
          LET iv == inv[s]
              jv == inv'[s]
          IN /\ jv.pc = "validating" =>
                    /\ AllFalse(jv.results)
                    /\ jv.target.id = Nth(Candidates(jv), Len(jv.results) + 1)
             /\ Commits(s) =>
                    /\ Post(s).results = Append(iv.results, TRUE)
                    /\ isValidating' = FALSE
                    /\ currentProject'.id = Nth(Candidates(iv), Len(iv.results) + 1)
                    /\ \A k \in 1..Len(iv.results) :
                           Nth(Candidates(iv), k) # currentProject'.id
                    /\ currentProject'.id # iv.currentProject.id
                    /\ validationDialogOpen' = validationDialogOpen
             /\ Skips(s) =>
                    /\ UNCHANGED <<storeVars, route, validationDialogOpen>>
                    /\ Post(s).outcome # "committed"
      ]_vars

\* C3 witness: history [A,B,C], current B, cyclePrevProject: C failed
\* validation, A validated, and A is current.
C3_Witness ==
    /\ lastReturn.outcome = "committed" /\ lastReturn.dir = "prev"
    /\ lastReturn.validHistory = <<"A", "B", "C">>
    /\ lastReturn.currentProject.id = "B"
    /\ lastReturn.results = <<FALSE, TRUE>>
    /\ currentProject.id = "A"

\* C4: when every project of validHistory other than the current one fails
\* validation, the cycle is a no-op: no step of it changes currentProject,
\* projectHistory, projectHistoryIndex or currentView, nothing navigates, and
\* it ends with the console diagnostic only.
C4_CycleExhaustedIsNoop ==
    [][/\ (lastReturn'.outcome = "exhausted") =>
              /\ AllFalse(lastReturn'.results)
              /\ Len(lastReturn'.results) = Len(Candidates(lastReturn'))
       /\ \A s \in InvSlots :
          LET iv == inv[s]
              jv == inv'[s]
          IN /\ jv.pc = "validating" => Len(jv.results) < Len(Candidates(jv))
             /\ (Resumes(s) /\ AllFalse(Post(s).results)
                 /\ Len(Post(s).results) = Len(Candidates(iv))) =>
                    /\ Post(s).outcome = "exhausted"
                    /\ UNCHANGED <<storeVars, route, validationDialogOpen>>
                    /\ isValidating' = FALSE
             /\ Skips(s) => UNCHANGED <<storeVars, route, validationDialogOpen>>
      ]_vars

\* C4 witness: history [A,B,C], current B: both other projects failed
\* validation and the cycle ended on the diagnostic, B still current.
C4_Witness ==
    /\ lastReturn.outcome = "exhausted"
    /\ lastReturn.validHistory = <<"A", "B", "C">>
    /\ lastReturn.currentProject.id = "B"
    /\ lastReturn.results = <<FALSE, FALSE>>
    /\ currentProject.id = "B"
    /\ route = "/settings"

\* C5: when fewer than two entries of the history the callback sees refer to
\* active projects, a cycle call returns at once: no validation is started
\* and the store (currentProject, projectHistory with its stale ids,
\* projectHistoryIndex, currentView) and the route are unchanged, on every
\* call.
C5_CycleNoopBelowTwo ==
    [][(/\ Len(filterHistory(rendered.projectHistory, rendered.projects)) <= 1
        /\ \A s \in InvSlots : ~Resumes(s)) =>
              /\ inv' = inv
              /\ lastReturn' # lastReturn =>
                     (lastReturn'.outcome \in {"guarded", "noop"} /\ lastReturn'.results = <<>>)
              /\ UNCHANGED <<currentProject, projectHistory, projectHistoryIndex,
                             currentView, route, validationDialogOpen>>
      ]_vars

\* C5 witness: a cycle call returned as a no-op (nothing validated) although the
\* history holds two ids, one of them stale, and the stale id is still in
\* the history.
C5_Witness ==
    /\ lastReturn.outcome = "noop"
    /\ Len(projectHistory) = 2
    /\ Len(filterHistory(projectHistory, projects)) = 1
    /\ Len(lastReturn.validHistory) = 1

\* C6: at most one cycle operation is in flight at any time, for every
\* interleaving of calls.
C6_OneCycleInFlight ==
    Cardinality({s \in InvSlots : inv[s].pc = "validating"}) <= 1


\* The ids of a history, as a set.
HistoryIds(history) == {history[k] : k \in 1..Len(history)}

\* C21: when a cycle commits, the chosen candidate becomes current, the
\* history becomes validHistory, that is the history the invocation read
\* without the ids absent from the active set it read, the remaining ids in
\* their old order (the candidates skipped for an invalid path included), and
\* the history index becomes the candidate's position in validHistory.
C21_CommitKeepsOrder ==
    [][\A s \in InvSlots :
          LET iv == inv[s]
              jv == inv'[s]
          IN /\ (iv.pc = "idle" /\ jv.pc = "validating") =>
                    /\ jv.projects = rendered.projects
                    /\ jv.validHistory =
                           SelectSeq(rendered.projectHistory,
                                     LAMBDA id : id \in idsOf(rendered.projects))
             /\ (iv.pc = "validating" /\ jv.pc = "validating") =>
                    /\ jv.validHistory = iv.validHistory
                    /\ jv.projects = iv.projects
             /\ Commits(s) =>
                    /\ currentProject' = iv.target
                    /\ iv.target = find(iv.projects, iv.target.id)
                    /\ projectHistory' = iv.validHistory
                    /\ \A k \in 1..Len(iv.results) :
                           Nth(Candidates(iv), k) \in HistoryIds(projectHistory')
                    /\ projectHistoryIndex' \in 0..(Len(projectHistory') - 1)
                    /\ projectHistoryIndex' = indexOf(projectHistory', iv.target.id)
                    /\ currentView' = "board"
      ]_vars

\* C21 witness: history [A,B,C] with B removed from the active set and no
\* current project: cyclePrevProject skipped C for its path, committed A, and
\* the history is [A,C] with A at index 0.
C21_Witness ==
    /\ lastReturn.outcome = "committed" /\ lastReturn.dir = "prev"
    /\ lastReturn.results = <<FALSE, TRUE>>
    /\ lastReturn.validHistory = <<"A", "C">>
    /\ projectHistory = <<"A", "C">>
    /\ currentProject.id = "A"
    /\ projectHistoryIndex = 0

\* Some cycle invocation is suspended on a validation.
CyclePending == \E s \in InvSlots : inv[s].pc = "validating"

\* C22: an invocation that set the latch takes at most len(validHistory)
\* candidate steps, hence at most len(validHistory) validations: each
\* validation that settles moves it one candidate step on or ends it, and it
\* ends by commit, by the early return for <= 1 valid entries or by
\* exhaustion (the validation a pending invocation waits for has an
\* answer); every one of these exits releases the latch, so the latch is
\* never set while no cycle operation is pending.
C22_CycleEndsLatchReleased ==
    [][/\ ~CyclePending' => isValidating' = FALSE
       /\ lastReturn'.outcome \in {"committed", "noop", "exhausted"} =>
              /\ lastReturn'.attempts <= Len(lastReturn'.validHistory)
              /\ Len(lastReturn'.results) <= Len(lastReturn'.validHistory)
       /\ \A s \in InvSlots :
          LET iv == inv[s]
              jv == inv'[s]
          IN /\ (jv.pc = "validating" /\ jv # iv) =>
                    /\ jv.target # NoProject
                    /\ ValidateAnswers(jv.target) # {}
                    /\ jv.attempts < Len(jv.validHistory)
                    /\ Len(jv.results) <= jv.attempts
             /\ (iv.pc = "validating" /\ jv.pc = "validating" /\ jv # iv) =>
                    /\ jv.attempts > iv.attempts
                    /\ Len(jv.results) = Len(iv.results) + 1
             /\ (iv.pc = "idle" /\ jv.pc = "validating") => isValidating' = TRUE
             /\ (Resumes(s) /\ jv.pc = "idle") =>
                    /\ lastReturn'.outcome \in {"committed", "exhausted"}
                    /\ Len(lastReturn'.results) = Len(iv.results) + 1
                    /\ isValidating' = FALSE
      ]_vars

\* C22 witness: an invocation over a three-entry validHistory ended by
\* exhaustion after two validations, and the latch is released.
C22_Witness ==
    /\ lastReturn.outcome = "exhausted"
    /\ Len(lastReturn.validHistory) = 3
    /\ Len(lastReturn.results) = 2
    /\ lastReturn.attempts = 3
    /\ ~CyclePending
    /\ isValidating = FALSE

\* C23: after a cycle operation commits, 0 <= projectHistoryIndex <
\* len(projectHistory), projectHistory[projectHistoryIndex] is
\* currentProject.id, and the project made current is in the active project
\* set at the moment of the commit, also when the active set changed while the
\* cycle was suspended on the candidate's validation.
C23_CommitLandsOnActive ==
    [][\A s \in InvSlots :
          Commits(s) =>
             /\ projectHistoryIndex' \in 0..(Len(projectHistory') - 1)
             /\ projectHistory'[projectHistoryIndex' + 1] = currentProject'.id
             /\ currentProject'.id \in idsOf(projects')
      ]_vars

Opposite(dir) == IF dir = "prev" THEN "next" ELSE "prev"

\* The opposite cycle call made on the store as a commit of invocation iv
\* leaves it, run up to its first validation.
Back(iv) ==
    cycleBegin(Opposite(iv.dir),
               [isValidating |-> FALSE, projects |-> projects',
                projectHistory |-> projectHistory', currentProject |-> currentProject'])

\* A commit of the invocation of slot s whose first candidate validated, the
\* current project being in its validHistory of at least two entries, and
\* the store being as the invocation read it (no other commit or removal in
\* between).
InverseCase(s) ==
    /\ Commits(s)
    /\ CurrentInHistory(inv[s])
    /\ inv[s].results = <<>>
    /\ currentProject = inv[s].currentProject
    /\ projects = inv[s].projects /\ projects' = projects
    /\ filterHistory(projectHistory, projects) = inv[s].validHistory

\* C24: cyclePrevProject and cycleNextProject are inverse to each other: when
\* the current project is in validHistory, validHistory has at least two
\* entries and all paths validate, cyclePrev followed by cycleNext (and
\* cycleNext followed by cyclePrev) lands on the original current project
\* again, at its position in validHistory; that position is the original
\* history index when the history held no id absent from the active set.
C24_PrevNextInverse ==
    [][\A s \in InvSlots :
          InverseCase(s) =>
             /\ Back(inv[s]).pc = "validating"
             /\ Back(inv[s]).attempts = 0
             /\ Back(inv[s]).validHistory = inv[s].validHistory
             /\ Back(inv[s]).target = inv[s].currentProject
             /\ Back(inv[s]).newIndex = inv[s].currentIndex
             /\ Back(inv[s]).newIndex = indexOf(inv[s].validHistory, inv[s].currentProject.id)
             /\ Len(projectHistory) = Len(inv[s].validHistory) =>
                    Back(inv[s]).newIndex = projectHistoryIndex
      ]_vars

\* C24 as stated: the round trip restores the original current project and
\* the original history index, whatever the history held.
C24_InverseRestoresIndex ==
    [][\A s \in InvSlots :
          InverseCase(s) =>
             /\ Back(inv[s]).target = inv[s].currentProject
             /\ Back(inv[s]).newIndex = projectHistoryIndex
      ]_vars

\* C24 witness: with B removed from the active set, history [A,B,C] and C
\* current, cyclePrevProject wrapped from C to A and left the history [A,C];
\* cycleNextProject from there goes for C again, at index 1.
C24_Witness ==
    /\ lastReturn.outcome = "committed" /\ lastReturn.dir = "prev"
    /\ lastReturn.results = <<TRUE>>
    /\ lastReturn.validHistory = <<"A", "C">>
    /\ lastReturn.currentProject.id = "C"
    /\ currentProject.id = "A" /\ projectHistoryIndex = 0
    /\ rendered = Live
    /\ cycleBegin("next", rendered).pc = "validating"
    /\ cycleBegin("next", rendered).target.id = "C"
    /\ cycleBegin("next", rendered).newIndex = 1

(***************************************************************************)
(* Properties of the create route                                          *)
(***************************************************************************)
Answered(c) == call[c].pc = "done" /\ Len(call[c].responses) = 1

Succeeded(c) == Answered(c) /\ call[c].responses[1].status = 200

Collided(c) ==
    /\ Answered(c)
    /\ call[c].responses[1] = BadRequest(WorktreeExists(call[c].branchName))

StepsOf(c) == {call[c].steps[k] : k \in 1..Len(call[c].steps)}

\* C7: a create that reaches the existence check after another create has
\* succeeded for the same repository and the same sanitized directory (the
\* directory still being there) fails with 400 `Worktree "<name>" already
\* exists`: it has run no branch probe and no worktree-creation command, it
\* tracks nothing, and the repository, its worktrees and the ledger are as
\* they were. A create that succeeds reports isNew = TRUE exactly when the
\* branch was absent before its worktree-creation command ran.
C7_SecondCreateCollides ==
    [][\A c \in Calls :
        /\ (/\ call[c].pc = "access"
            /\ call'[c] # call[c]
            /\ \E f \in Calls \ {c} :
                  /\ Succeeded(f)
                  /\ call[f].worktreePath = call[c].worktreePath
                  /\ call[f].worktreePath \in existingDirs)
           => /\ call'[c].pc = "done"
              /\ call'[c].responses = <<BadRequest(WorktreeExists(call[c].branchName))>>
              /\ call'[c].steps = <<"args", "repoProbe", "mkdir", "access">>
              /\ call'[c].createArgs = <<>>
              /\ UNCHANGED repoVars
        /\ (call[c].pc = "worktreeAdd" /\ call'[c].pc = "track")
           => call[c].branchExists = (call[c].branchName \in branches)
        /\ (call[c].pc = "track" /\ call'[c].pc = "done"
                /\ call'[c].responses[1].status = 200)
           => call'[c].responses[1].worktree.isNew = ~call[c].branchExists
      ]_vars

\* C7 witness: the first create succeeded for a new branch, and the second,
\* for another name with the same sanitized directory, was refused.
C7_Witness ==
    /\ Succeeded(1)
    /\ call[1].responses[1].worktree.isNew
    /\ Collided(2)
    /\ call[2].branchName # call[1].branchName
    /\ call[2].worktreePath = call[1].worktreePath
    /\ "create" \notin StepsOf(2)

\* C8: when two creates for the same repository and the same sanitized
\* directory both pass the existence check and git refuses the later
\* worktree-creation command because the directory is there, that create
\* answers 400 `Worktree "<name>" already exists`, as a sequential collision
\* does.
C8_RaceLoserCollides ==
    \A c \in Calls :
        (/\ Answered(c)
         /\ "pathExists" \in call[c].refused
         /\ \E f \in Calls \ {c} :
               /\ Succeeded(f)
               /\ call[f].worktreePath = call[c].worktreePath)
        => Collided(c)

\* C9: once the worktree-creation command is chosen, its directory is
\* <projectPath>/.worktrees/<s>, s being branchName with every character
\* outside [A-Za-z0-9_-] replaced by "-", and the branch it creates or
\* attaches is exactly branchName.
C9_BranchIsRequestedName ==
    \A c \in Calls :
        call[c].createArgs # <<>> =>
            LET p == parseWorktreeAdd(call[c].createArgs)
                name == call[c].branchName
                dir == normalizePath(p.path)
                base == normalizePath(call[c].projectPath) \o <<"/", ".worktrees", "/">>
            IN /\ p.usage
               /\ Len(dir) = Len(base) + Len(name)
               /\ SubSeq(dir, 1, Len(base)) = base
               /\ \A i \in 1..Len(name) :
                     /\ dir[Len(base) + i] \in SafeChars
                     /\ dir[Len(base) + i] = name[i] \/ name[i] \notin SafeChars
                     /\ name[i] \notin SafeChars => dir[Len(base) + i] = "-"
               /\ (IF p.newBranch # NoBranch THEN p.newBranch ELSE p.commitish) = name

\* C10: a request with an empty projectPath or branchName is answered 400
\* "projectPath and branchName required" after the argument check alone,
\* and a request whose repository probe fails is answered 400 "Not a git
\* repository" after the probe alone; neither step changes the .worktrees
\* container, the worktrees, the branches or the ledger, and the call has
\* chosen no command. A path that is no repository never gets past the probe.
C10_RejectedBeforeMutation ==
    [][\A c \in Calls :
        /\ (/\ call[c].pc = "idle"
            /\ call'[c].pc # "idle"
            /\ call'[c].projectPath = <<>> \/ call'[c].branchName = <<>>)
           => /\ call'[c].pc = "done"
              /\ call'[c].responses = <<BadRequest(Message("projectPath and branchName required"))>>
              /\ call'[c].steps = <<"args">>
              /\ call'[c].createArgs = <<>>
              /\ UNCHANGED repoVars
        /\ (call[c].pc = "isGitRepo" /\ call'[c] # call[c])
           => \/ /\ call'[c].pc = "mkdir"
                 /\ call[c].projectPath = RepoPath
              \/ /\ call'[c].pc = "done"
                 /\ call'[c].responses = <<BadRequest(Message("Not a git repository"))>>
                 /\ call'[c].steps = <<"args", "repoProbe">>
                 /\ call'[c].createArgs = <<>>
                 /\ UNCHANGED repoVars
        /\ call[c].pc = "done" => call'[c] = call[c]
      ]_vars

\* C10 witness: one request without a branch name and one for a directory
\* that is no repository have both been rejected, and nothing was created.
C10_Witness ==
    /\ Answered(1)
    /\ call[1].projectPath = RepoPath
    /\ call[1].branchName = <<>>
    /\ call[1].responses[1].error = Message("projectPath and branchName required")
    /\ Answered(2)
    /\ call[2].projectPath = PlainPath
    /\ call[2].responses[1].error = Message("Not a git repository")
    /\ ~containerExists
    /\ tracked = <<>>


Pair(c) == [projectPath |-> call[c].projectPath, branchName |-> call[c].branchName]

Entries(ledger, pair) == {k \in 1..Len(ledger) : ledger[k] = pair}

\* C17: the ledger never holds two entries for one (projectPath,
\* branchName) pair, an entry once in the ledger stays in it at its place
\* whatever happens (a worktree directory disappearing, a later create
\* failing), and a create that answers success has exactly one entry for
\* its pair.
C17_LedgerIdempotent ==
    [][/\ \A j, k \in 1..Len(tracked') : tracked'[j] = tracked'[k] => j = k
       /\ Len(tracked') >= Len(tracked)
       /\ SubSeq(tracked', 1, Len(tracked)) = tracked
       /\ \A c \in Calls :
             (call'[c].pc = "done" /\ call'[c].responses[1].status = 200)
             => Cardinality({k \in 1..Len(tracked') :
                    tracked'[k] = [projectPath |-> call'[c].projectPath,
                                   branchName |-> call'[c].branchName]}) = 1
      ]_vars

\* C17 witness: two creates succeeded for the same pair (the first worktree
\* directory was removed in between) and the ledger holds one entry.
C17_Witness ==
    /\ Succeeded(1)
    /\ Succeeded(2)
    /\ Pair(1) = Pair(2)
    /\ removals = 1
    /\ tracked = <<Pair(1)>>

StepOrder == <<"args", "repoProbe", "mkdir", "access", "branchProbe", "create", "track">>

\* C18: the steps a create has run are always an initial part of: argument
\* check, repository probe, container mkdir, collision check, branch probe,
\* worktree creation, tracking. A success answer is given only by the
\* tracking step, after all seven steps, with the pair in the ledger; the
\* worktree-creation step that succeeds adds the worktree; the one that
\* fails answers 500 with the tool's message and leaves the ledger, the
\* worktrees and the branches as they were.
C18_StepsInOrder ==
    [][\A c \in Calls :
        /\ Len(call'[c].steps) <= Len(StepOrder)
        /\ call'[c].steps = SubSeq(StepOrder, 1, Len(call'[c].steps))
        /\ (call'[c] # call[c] /\ call'[c].pc = "done" /\ call'[c].responses[1].status = 200)
           => /\ call[c].pc = "track"
              /\ call'[c].steps = StepOrder
              /\ Entries(tracked', Pair(c)) # {}
        /\ (call[c].pc = "worktreeAdd" /\ call'[c].pc = "track")
           => /\ call[c].worktreePath \notin existingDirs
              /\ \E w \in worktrees' : w.path = call[c].worktreePath
              /\ Entries(tracked, Pair(c)) = Entries(tracked', Pair(c))
        /\ (call[c].pc = "worktreeAdd" /\ call'[c].pc = "done")
           => /\ call'[c].responses = <<ServerError(Message("Command failed"))>>
              /\ UNCHANGED <<tracked, worktrees, branches>>
      ]_vars

\* C18 witness: one create ran all seven steps and answered success, the
\* other failed at the worktree-creation step.
C18_Witness ==
    /\ Succeeded(1)
    /\ call[1].steps = StepOrder
    /\ Answered(2)
    /\ call[2].steps = SubSeq(StepOrder, 1, 6)
    /\ call[2].responses[1].status = 500

\* C19: the command is chosen by branchExists: with it, `worktree add
\* <path> <branch>`; without it, `worktree add -b ... <path> <base>`, base
\* being baseBranch or HEAD (and `-b <branch> <path> <base>` exactly for a
\* name without a space). A call runs one creation command at most; when
\* it succeeds, that one step adds the worktree for branchName at
\* worktreePath and, without branchExists, the branch that was not there;
\* the success answer has isNew = ~branchExists.
C19_VariantFromProbe ==
    [][\A c \in Calls :
        /\ call'[c].createArgs # <<>>
           => LET a == call'[c].createArgs
                  name == call'[c].branchName
                  base == IF call'[c].baseBranch = <<>> THEN HeadRef ELSE call'[c].baseBranch
              IN IF call'[c].branchExists
                 THEN a = <<call'[c].worktreePath, name>>
                 ELSE /\ a[1] = FlagB
                      /\ a[Len(a)] = base
                      /\ a[Len(a) - 1] = call'[c].worktreePath
                      /\ (\A i \in 1..Len(name) : name[i] # " ")
                         => a = <<FlagB, name, call'[c].worktreePath, base>>
        /\ Cardinality({k \in 1..Len(call'[c].steps) : call'[c].steps[k] = "create"}) <= 1
        /\ (call[c].pc = "worktreeAdd" /\ call'[c].pc = "track")
           => /\ worktrees' = worktrees \cup
                     {[path |-> call[c].worktreePath, branch |-> call[c].branchName]}
              /\ IF call[c].branchExists
                 THEN call[c].branchName \in branches /\ branches' = branches
                 ELSE /\ call[c].branchName \notin branches
                      /\ branches' = branches \cup {call[c].branchName}
        /\ (call[c].pc = "track" /\ call'[c].pc = "done"
               /\ call'[c].responses[1].status = 200)
           => call'[c].responses[1].worktree =
                 [path |-> normalizePath(call[c].worktreePath),
                  branch |-> call[c].branchName,
                  isNew |-> ~call[c].branchExists]
      ]_vars

\* C19 witness: one create attached its worktree to an existing branch
\* (isNew false), the other created a new branch at the given base (isNew
\* true).
C19_Witness ==
    /\ Succeeded(1)
    /\ ~call[1].responses[1].worktree.isNew
    /\ call[1].createArgs = <<call[1].worktreePath, call[1].branchName>>
    /\ Succeeded(2)
    /\ call[2].responses[1].worktree.isNew
    /\ call[2].createArgs = <<FlagB, call[2].branchName, call[2].worktreePath, Main>>

\* C20: the branch probe never answers the request: whatever it returns,
\* the call goes on to the worktree-creation command; branchExists is true
\* only for an existing branch, false whenever the branch is absent, and
\* with branchExists false the command is the `-b` variant.
C20_ProbeNeverFails ==
    [][\A c \in Calls :
        (call[c].pc = "revParse" /\ call'[c] # call[c])
        => /\ call'[c].pc = "worktreeAdd"
           /\ call'[c].responses = <<>>
           /\ call'[c].branchExists => call[c].branchName \in branches
           /\ call[c].branchName \notin branches => ~call'[c].branchExists
           /\ ~call'[c].branchExists => call'[c].createArgs[1] = FlagB
      ]_vars

\* C20 witness: the probe failed on the tool for a branch that exists; the
\* call went on with branchExists false and the `-b` variant.
C20_Witness ==
    /\ call[1].pc = "worktreeAdd"
    /\ call[2].pc = "idle"
    /\ worktrees = {}
    /\ call[1].branchName \in branches
    /\ ~call[1].branchExists
    /\ call[1].createArgs[1] = FlagB

(***************************************************************************)
(* Properties of the trash and of the path-repair flow                     *)
(***************************************************************************)
Active == idsOf(projects)

Trashed == idsOf(trashedProjects)

RestoreSettles == restoreOp.pc = "validating" /\ restoreOp'.pc = "idle"

DeleteSettles == deleteOp.pc = "trashItem" /\ deleteOp'.pc = "idle"

RepairSettles == repairOp.pc = "validating" /\ repairOp'.pc = "idle"

\* C11: when the validation of a trashed project's path does not return
\* true, the restore is refused with "Project path not found": projects,
\* trashedProjects and currentProject are unchanged. A step moves an id
\* from the trash to the active set only as the resumption of a restore of
\* that id whose validation returned true, and such a resumption moves the
\* record (same id and path) when it is still in the trash.
C11_RestoreNeedsValidPath ==
    [][/\ (RestoreSettles /\ restoreOp'.answer = "false")
          => /\ toast' = "Project path not found"
             /\ UNCHANGED <<projects, trashedProjects, currentProject, gone>>
       /\ \A id \in ProjectIds :
             (/\ id \in Trashed
              /\ id \notin Active
              /\ id \notin idsOf(trashedProjects')
              /\ id \in idsOf(projects'))
             => /\ RestoreSettles
                /\ restoreOp'.answer = "true"
                /\ restoreOp.project.id = id
                /\ find(projects', id) = find(trashedProjects, id)
      ]_vars

\* C11 witness: a restore was refused and its project is still in the trash
\* and not active.
C11_Witness ==
    /\ restoreOp.pc = "idle"
    /\ restoreOp.answer = "false"
    /\ toast = "Project path not found"
    /\ Trashed # {}
    /\ Trashed \cap Active = {}

\* C12: a record leaves the trash without being restored and without an
\* emptyTrash only when api.trashItem answered success for it. When the
\* facility is missing, or the request fails or throws, "Failed to delete
\* project folder" is shown, projects, trashedProjects and currentProject
\* are unchanged, and activeTrashId is null again.
C12_DeleteNeedsTrashSuccess ==
    [][/\ (DeleteSettles /\ deleteOp'.answer # "success")
          => /\ toast' = "Failed to delete project folder"
             /\ activeTrashId' = NoId
             /\ UNCHANGED <<projects, trashedProjects, currentProject, gone>>
       /\ (DeleteSettles /\ deleteOp'.answer = "success")
          => /\ deleteOp.project.id \notin idsOf(trashedProjects')
             /\ activeTrashId' = NoId
       /\ (deleteOp.pc = "idle" /\ deleteOp'.pc = "idle"
              /\ toast' = "Failed to delete project folder")
          => /\ activeTrashId' = NoId
             /\ UNCHANGED <<projects, trashedProjects, currentProject, gone>>
       /\ \A id \in ProjectIds :
             (/\ id \in Trashed
              /\ id \notin idsOf(trashedProjects')
              /\ projects' = projects
              /\ ~RestoreSettles
              /\ toast' # "Recycle bin cleared")
             => /\ DeleteSettles
                /\ deleteOp'.answer = "success"
                /\ deleteOp.project.id = id
      ]_vars

\* C12 witness: the system trash was not available; the record is still in
\* the trash and no deletion is marked in progress.
C12_Witness ==
    /\ deleteOp = OpIdle
    /\ toast = "Failed to delete project folder"
    /\ activeTrashId = NoId
    /\ Trashed # {}

\* C13: no project id is in both the active set and the trashed set.
C13_ActiveTrashedDisjoint == Active \cap Trashed = {}

\* C14: an id that was permanently removed from the trash (a successful
\* deleteFromDisk, or emptyTrash) is in neither the active nor the trashed
\* set ever after.
C14_GoneIsTerminal == gone \cap (Active \cup Trashed) = {}

\* C15: in the path-repair flow nothing is accepted before the validation
\* of the new path returned true: when the picker is cancelled, while the
\* validation is pending, and when it does not return true, projects (and
\* the project's path in it), currentProject, the dialog's open state and
\* its project are unchanged.
C15_RejectedPathChangesNothing ==
    [][/\ (repairOp.pc = "picking" /\ repairOp'.pc # "picking")
          => UNCHANGED <<projects, currentProject, validationDialogOpen, invalidProject,
                         route, trashedProjects>>
       /\ (RepairSettles /\ repairOp'.answer # "true")
          => /\ toast' = "Invalid path"
             /\ UNCHANGED <<projects, currentProject, validationDialogOpen, invalidProject,
                            route, trashedProjects>>
       /\ \A id \in ProjectIds :
             (/\ id \in Active
              /\ id \in idsOf(projects')
              /\ find(projects, id).path # NewPath
              /\ find(projects', id).path = NewPath)
             => RepairSettles /\ repairOp'.answer = "true"
      ]_vars

\* C15 witness: a located path was rejected; the dialog is still open for a
\* project that is in the list with its old path.
C15_Witness ==
    /\ repairOp.pc = "idle"
    /\ repairOp.answer = "false"
    /\ toast = "Invalid path"
    /\ validationDialogOpen
    /\ invalidProject # NoProject
    /\ find(projects, invalidProject.id) = invalidProject

\* C16: the dialog's remove ("Project removed") takes its project out of the
\* active list, leaves the other projects as they were, clears the current
\* project and closes the dialog; the dialog's dismiss (the dialog closes
\* and nothing is shown) clears the current project, closes the dialog and
\* leaves projects and the trash unchanged.
C16_RemoveVersusDismiss ==
    [][/\ (toast' = "Project removed" /\ clicks' # clicks)
          => /\ projects' = without(projects, invalidProject.id)
             /\ invalidProject.id \notin idsOf(projects')
             /\ currentProject' = NoProject
             /\ ~validationDialogOpen'
       /\ (validationDialogOpen /\ ~validationDialogOpen' /\ toast' = "")
          => /\ currentProject' = NoProject
             /\ UNCHANGED <<projects, trashedProjects>>
      ]_vars

\* C16 witness: the dialog was dismissed while its project was the current
\* one; the project is still in the list, unchanged.
C16_Witness ==
    /\ ~validationDialogOpen
    /\ invalidProject = Project("A")
    /\ currentProject = NoProject
    /\ clicks = 2
    /\ toast = ""
    /\ projects = SubSeq(AllProjects, 1, 2)

\* C25: accepting a relocated path changes only the path and lastOpened of
\* the project with the repaired id (id and name kept), makes that project
\* current and closes the dialog; the set of active project ids and every
\* other project's record are what they were immediately before the
\* acceptance is committed, also when the registry changed while the
\* validation of the new path was pending. (The project is one that was
\* active when its repair began.)
C25_AcceptChangesOnlyRepaired ==
    [][(/\ RepairSettles /\ repairOp'.answer = "true"
        /\ repairOp.project.id \in idsOf(repairOp.projects)) =>
          LET id == repairOp.project.id
          IN /\ idsOf(projects') = idsOf(projects)
             /\ \A other \in idsOf(projects) \ {id} :
                   find(projects', other) = find(projects, other)
             /\ find(projects', id) =
                   [find(projects, id) EXCEPT !.path = repairOp.newPath, !.lastOpened = Now]
             /\ currentProject' = find(projects', id)
             /\ validationDialogOpen' = FALSE
             /\ trashedProjects' = trashedProjects
      ]_vars

\* The step a pending call waits for settles.
CallStep(c) ==
    \/ \E toolOk \in BOOLEAN : RepoProbe(c, toolOk)
    \/ \E ok \in BOOLEAN : Mkdir(c, ok)
    \/ Access(c)
    \/ \E toolOk \in BOOLEAN : BranchProbe(c, toolOk)
    \/ \E toolOk \in BOOLEAN : WorktreeAdd(c, toolOk)
    \/ \E ok \in BOOLEAN : TrackBranch(c, ok)

LastStep(c) == call[c].steps[Len(call[c].steps)]

\* C26: every create invocation produces exactly one response on every path:
\* a 400 failure for missing arguments, a non-repository or an existing
\* target directory; a 500 failure carrying the error message when
\* directory creation, worktree creation or branch tracking throws; or one
\* success result. A call that has not answered yet has a step to take and
\* has sent nothing; a call that answered has sent one response and takes
\* no further step.
C26_ExactlyOneResponse ==
    [][\A c \in Calls :
          /\ call[c].pc = "done" =>
                /\ call'[c] = call[c]
                /\ Len(call[c].responses) = 1
                /\ LET response == call[c].responses[1]
                   IN /\ response.status \in {200, 400, 500}
                      /\ response.status = 400 <=>
                             LastStep(c) \in {"args", "repoProbe", "access"}
                      /\ response.status = 400 =>
                             /\ response.error.message \in
                                    {"projectPath and branchName required",
                                     "Not a git repository", "Worktree already exists"}
                             /\ response.worktree = NoWorktree
                      /\ response.status = 500 =>
                             /\ LastStep(c) \in {"mkdir", "create", "track"}
                             /\ response.error.message # ""
                             /\ response.worktree = NoWorktree
                      /\ response.status = 200 =>
                             /\ LastStep(c) = "track"
                             /\ response.error = Message("")
                             /\ response.worktree # NoWorktree
          /\ call[c].pc # "done" =>
                /\ call[c].responses = <<>>
                /\ call[c].pc # "idle" => ENABLED CallStep(c)
                /\ Len(call'[c].responses) <= 1
      ]_vars

\* C26 witness: one call answered 500 after the worktree creation threw and
\* the other answered 200, each with exactly one response.
C26_Witness ==
    \E c, d \in Calls :
        /\ call[c].pc = "done" /\ Len(call[c].responses) = 1
        /\ call[c].responses[1].status = 500 /\ LastStep(c) = "create"
        /\ call[d].pc = "done" /\ Len(call[d].responses) = 1
        /\ call[d].responses[1].status = 200

====
